---- MODULE Spec2Model ----
(***************************************************************************)
(* A model of ww's lazy iterable wrapper g() (ww.wrappers.iterables) and   *)
(* of the free functions behind it (ww.tools.iterables).                   *)
(*                                                                         *)
(* Spec      : one wrapper g over a one-shot source, with next(), iter(),  *)
(*             tee() and copy(), and the wrappers tee() and copy() hand    *)
(*             out.                                                        *)
(* SpecSlice : g[start:stop:step] / g[index] resolved by __getitem__ and   *)
(*             iterslice, and the resulting lazy sequence pulled one       *)
(*             element at a time.                                          *)
(* SpecIndex : g[i] and g[P], the index lookups of __getitem__ (at_index,  *)
(*             first_true), and reads of g before and after them.          *)
(* SpecGen   : g.firsts(), g.lasts(), g.chunks() and g.window(), each      *)
(*             pulled one element at a time, and reads of g around them.   *)
(* SpecDedup : skip_duplicates() with a key function and a fingerprint     *)
(*             set, pulled one element at a time.                          *)
(* SpecOps   : g(A, B, ...), g + B, B + g, g * n, g - T, T - g, each pulled *)
(*             one element at a time, and g.count().                       *)
(* SpecLazy  : every call that returns a derived wrapper (map, zip,        *)
(*             enumerate and the ones above), which is read or dropped.    *)
(* SpecShared: two skip_duplicates() generators over g that share one      *)
(*             fingerprint set, pulled in any order.                       *)
(***************************************************************************)
EXTENDS Integers, Sequences, FiniteSets, TLC

\* ------------------------------------------------------------------ bounds
MaxLen == 3
MaxHandles == 2
MaxSliceLen == 4
MaxIdx == 3
MaxStep == 2
MaxItems == 3
MaxOther == 2

\* The elements a source may hold.
Vals == {1, 2}

VARIABLES
    src,         \* the elements of the one-shot source g was built on
    pos,         \* how many elements have been pulled from the source
    iterator,    \* g.iterator: [grp, idx]; grp 0 is the source's own iterator
    tee_called,  \* g._tee_called
    tbuf,        \* per itertools.tee group: the elements pulled through it
    handles,     \* the wrappers tee() and copy() returned
    last,        \* the last call and what it returned or raised
    teeCalls,    \* number of tee() calls made on g
    sl,          \* the slice machine (SpecSlice)
    gen          \* the last index lookup or derived generator on g

teeVars == <<iterator, tee_called, tbuf, handles, teeCalls>>
vars == <<src, pos, iterator, tee_called, tbuf, handles, last, teeCalls, sl,
          gen>>

\* ----------------------------------------------------------------- helpers
SeqsUpTo(n) == UNION {[1..k -> Vals] : k \in 0..n}

Rest(s, n) == SubSeq(s, n + 1, Len(s))

IsPrefix(a, b) == Len(a) <= Len(b) /\ a = SubSeq(b, 1, Len(a))

NoCall == [op |-> "none", who |-> 0, res |-> 0, err |-> "none"]

Returned(op, who, v) == [op |-> op, who |-> who, res |-> v, err |-> "none"]

Raised(op, who, e) == [op |-> op, who |-> who, res |-> 0, err |-> e]

\* The caller's default for next(default): not an element of any source.
Default == 0

\* ------------------------------------------------------- reading iterators
\* The source's own iterator, as g.iterator holds it after construction.
Raw == [grp |-> 0, idx |-> 0]

\* itertools.tee: a tee object [grp, idx] has read idx elements of its
\* group's buffer; it serves buffered elements first and, at the frontier,
\* pulls the underlying iterator and buffers the element for the others.
Buffered(it) == it.grp # 0 /\ it.idx < Len(tbuf[it.grp])

\* Whether next(it) finds an element.
HasNext(it) == Buffered(it) \/ pos < Len(src)

\* Mutant: the source hands out its last element.
NextValLast(it) ==
    IF Buffered(it) THEN tbuf[it.grp][it.idx + 1] ELSE src[Len(src)]

\* The element next(it) returns, when HasNext(it).
NextVal(it) == IF Buffered(it) THEN tbuf[it.grp][it.idx + 1] ELSE src[pos + 1]

\* The iterator object after next(it) returned an element.
Stepped(it) == IF it.grp = 0 THEN it ELSE [it EXCEPT !.idx = @ + 1]

\* The group buffer after one of its tee objects pulled v from the source.
BufAfterPull(buf, v) == Append(buf, v)

\* The effect of next(it) on the source and the buffers, when HasNext(it).
Pull(it) ==
    IF Buffered(it)
      THEN UNCHANGED <<pos, tbuf>>
      ELSE /\ pos' = pos + 1
           /\ tbuf' = IF it.grp = 0 THEN tbuf
                      ELSE [tbuf EXCEPT ![it.grp] = BufAfterPull(@, src[pos + 1])]

\* What iterator it would yield from now on if it alone were read.
Future(it) == IF it.grp = 0 THEN Rest(src, pos)
              ELSE Rest(tbuf[it.grp], it.idx) \o Rest(src, pos)

\* ------------------------------------------------------------ construction
\* A slice boundary as the caller writes it: absent, an integer offset, a
\* one-argument predicate (the set p of the elements it accepts), or any
\* other truthy object (n: the element it is equal to, if any).
Absent == [k |-> "none", n |-> 0, p |-> {}]

IntB(n) == [k |-> "int", n |-> n, p |-> {}]

\* The slice machine before any __getitem__ call.
SliceIdle ==
    [phase |-> "idle", start |-> IntB(0), stop |-> Absent, step |-> 1,
     form |-> "II", nxt |-> 0, cnt |-> 0, alive |-> FALSE, started |-> FALSE,
     stopped |-> FALSE, out |-> <<>>, err |-> "none", pos0 |-> 0]

\* No index lookup was made and no generator was derived from g yet.
GenIdle ==
    [kind |-> "idle", phase |-> "idle", pos0 |-> 0, out |-> <<>>,
     err |-> "none"]

\* IterableWrapper.__init__: g wraps the source's iterator, nothing is read.
InitWrapper ==
    /\ pos = 0
    /\ iterator = Raw
    /\ tee_called = FALSE
    /\ tbuf = <<>>
    /\ handles = <<>>
    /\ teeCalls = 0
    /\ last = NoCall

\* tee() and copy() never look at the elements: a source of n distinct
\* elements stands for every source of length n.
Distinct(n) == [i \in 1..n |-> i]

Init ==
    /\ src \in {Distinct(n) : n \in 0..MaxLen}
    /\ InitWrapper
    /\ sl = SliceIdle
    /\ gen = GenIdle

\* ------------------------------------------------------------------- tee()
\* A wrapper handed out by tee() or copy(): its tee object (it; when shared
\* is set the object is g.iterator itself), what it was promised (snap), what
\* it yielded (out), whether it reported exhaustion (done), whether only the
\* readers it was promised independence from have read since (clean) and,
\* for a copy, what g itself yielded since (gout, gdone).
NewHandle(it, shared, kind, call, snap) ==
    [it |-> it, shared |-> shared, kind |-> kind, call |-> call, snap |-> snap,
     out |-> <<>>, done |-> FALSE, clean |-> TRUE, gout |-> <<>>,
     gdone |-> FALSE]

\* Mutant: tee() hands every copy the one iterator it was given.
TeeSharesInput(it, j) == TRUE

\* Whether the j-th result of itertools.tee(it, n) is the object it itself:
\* on the interpreters ww supports (2.7, 3.3 to 3.5) tee() over a tee object
\* returns that object first and copies of it after.
TeeShares(it, j) == it.grp # 0 /\ j = 1

\* The j-th result of itertools.tee(it, n): over a plain iterator a tee
\* object of a new group with an empty buffer, over a tee object a copy of
\* it in its group.
TeeObject(it, j) == IF it.grp = 0 THEN [grp |-> Len(tbuf) + 1, idx |-> 0]
                    ELSE it

\* The buffers after itertools.tee(it, n), n > 0.
TeeBuffers(it) == IF it.grp = 0 THEN Append(tbuf, <<>>) ELSE tbuf

\* Mutant: tee() forgets to mark the wrapper.
TeeFlagUnset == FALSE

\* The value tee() leaves in self._tee_called.
TeeFlag == TRUE

\* IterableWrapper.tee(num)
Tee ==
    /\ \E n \in 1..(MaxHandles - Len(handles)) :
         /\ handles' = handles \o
              [j \in 1..n |-> NewHandle(TeeObject(iterator, j),
                                        TeeShares(iterator, j), "tee",
                                        teeCalls + 1, Future(iterator))]
         /\ last' = Returned("tee", 0, n)
    /\ tbuf' = TeeBuffers(iterator)
    /\ tee_called' = TeeFlag
    /\ teeCalls' = teeCalls + 1
    /\ UNCHANGED <<src, pos, iterator, sl, gen>>

\* ------------------------------------------------------------------ copy()
\* Mutant: copy() keeps self.iterator and only takes the second result.
CopyKeepsIterator(it) == it

\* What copy() binds self.iterator to: the first result of itertools.tee.
CopyRebind(it) == TeeObject(it, 1)

\* IterableWrapper.copy(): self.iterator, new = itertools.tee(self.iterator)
Copy ==
    /\ Len(handles) < MaxHandles
    /\ iterator' = CopyRebind(iterator)
    /\ tbuf' = TeeBuffers(iterator)
    /\ handles' = Append(handles,
         NewHandle(TeeObject(iterator, 2), TeeShares(iterator, 2), "copy", 0,
                   Future(iterator)))
    /\ last' = Returned("copy", 0, 0)
    /\ UNCHANGED <<src, pos, tee_called, teeCalls, sl, gen>>

\* ------------------------------------------------------------------- reads
\* Bookkeeping of a read attempt by g on the handed-out wrappers: a copy
\* records what g yields; a tee copy was promised nothing about reads on g.
AfterGRead(h, got, v) ==
    IF h.kind = "copy"
      THEN IF got THEN [h EXCEPT !.gout = Append(@, v)]
                  ELSE [h EXCEPT !.gdone = TRUE]
      ELSE [h EXCEPT !.clean = FALSE]

\* IterableWrapper.next(default): next(self.iterator, default)
GNext ==
    /\ IF HasNext(iterator)
         THEN /\ last' = Returned("next", 0, NextVal(iterator))
              /\ Pull(iterator)
              /\ iterator' = Stepped(iterator)
              /\ handles' = [i \in 1..Len(handles) |->
                               AfterGRead(handles[i], TRUE, NextVal(iterator))]
         ELSE /\ last' = Returned("next", 0, Default)
              /\ handles' = [i \in 1..Len(handles) |->
                               AfterGRead(handles[i], FALSE, Default)]
              /\ UNCHANGED <<pos, tbuf, iterator>>
    /\ UNCHANGED <<src, tee_called, teeCalls, sl, gen>>

\* The iterator object wrapper h reads.
ObjectOf(h) == IF h.shared THEN iterator ELSE h.it

\* Whether a read on wrapper r leaves wrapper h within what it was promised:
\* the copies of one tee() call are promised independence from each other.
SameTee(h, r) == h.kind = "tee" /\ r.kind = "tee" /\ h.call = r.call

\* Bookkeeping of a read attempt on the handed-out wrapper number r.
AfterHRead(i, r, got, v) ==
    LET h == handles[i]
        moved == IF i = r /\ got /\ ~h.shared
                   THEN [h EXCEPT !.it = Stepped(@)] ELSE h
    IN  IF i = r
          THEN IF got THEN [moved EXCEPT !.out = Append(@, v)]
                      ELSE [moved EXCEPT !.done = TRUE]
          ELSE [moved EXCEPT !.clean = @ /\ SameTee(h, handles[r])]

\* next() on a wrapper returned by tee() or copy(); it reads its own tee
\* object (its _tee_called is False, its iterator chains over the object).
HNext(r) ==
    LET it == ObjectOf(handles[r]) IN
    /\ IF HasNext(it)
         THEN /\ last' = Returned("next", r, NextVal(it))
              /\ Pull(it)
              /\ iterator' = IF handles[r].shared THEN Stepped(iterator)
                             ELSE iterator
              /\ handles' = [i \in 1..Len(handles) |->
                               AfterHRead(i, r, TRUE, NextVal(it))]
         ELSE /\ last' = Raised("next", r, "StopIteration")
              /\ handles' = [i \in 1..Len(handles) |->
                               AfterHRead(i, r, FALSE, Default)]
              /\ UNCHANGED <<pos, tbuf, iterator>>
    /\ UNCHANGED <<src, tee_called, teeCalls, sl, gen>>

\* The guard of __iter__.
IterRaises == tee_called

\* IterableWrapper.__iter__: the entry point of iter(g), for loops and list(g)
GIter ==
    /\ last' = IF IterRaises THEN Raised("iter", 0, "RuntimeError")
                             ELSE Returned("iter", 0, 0)
    /\ UNCHANGED <<src, pos, teeVars, sl, gen>>

Next ==
    \/ Tee
    \/ Copy
    \/ GNext
    \/ \E r \in 1..Len(handles) : HNext(r)
    \/ GIter

Spec == Init /\ [][Next]_vars

\* ============================================================== slicing
PredB(s) == [k |-> "pred", n |-> 0, p |-> s]

ValB(v) == [k |-> "val", n |-> v, p |-> {}]

Boundaries == {Absent} \cup {IntB(n) : n \in 0..MaxIdx}
                \cup {PredB(s) : s \in SUBSET Vals}
                \cup {ValB(v) : v \in Vals}

\* The steps a caller may write; 0 stands for an absent step.
Steps == (-2)..MaxStep

\* isinstance(b, int), for a boundary __getitem__ has resolved.
IsInt(b) == b.k = "int"

\* Mutant: a boundary that is not callable is never converted to a condition.
SatCallableOnly(b, x) == b.k = "pred" /\ x \in b.p

\* Mutant: dropwhile/takewhile given the condition instead of its negation.
SatNegated(b, x) == IF b.k = "pred" THEN x \notin b.p ELSE x # b.n

\* The condition starts_when/stops_when test: a callable as it is, any other
\* object converted to lambda x: x == cond_value.
Sat(b, x) == IF b.k = "pred" THEN x \in b.p ELSE x = b.n

\* __getitem__: start = index.start or 0
StartOf(b) == IF b.k = "none" \/ (b.k = "int" /\ b.n = 0) THEN IntB(0) ELSE b

\* __getitem__: step = index.step or 1
StepOf(k) == IF k = 0 THEN 1 ELSE k

\* iterslice: "not isinstance(stop, int) and stop"
StopIsCondition(b) == ~IsInt(b) /\ b.k # "none"

\* The branch iterslice takes.
FormOf(start, stop) ==
    IF ~IsInt(start)
      THEN IF StopIsCondition(stop) THEN "PP" ELSE "PI"
      ELSE IF StopIsCondition(stop) THEN "IP" ELSE "II"

\* Mutant: the step is not checked.
StepNeverRejected(step) == FALSE

\* iterslice: "if step < 0: raise ValueError"
StepRejected(step) == step < 0

\* itertools.islice refuses a step below 1 when it is built.
IsliceRejects(form, step) == form # "PP" /\ step < 1

\* Mutant: branch [Callable:int] passes no stop to islice.
IsliceStopDropped(form, stop) ==
    IF form = "IP" \/ form = "PI" \/ stop.k = "none" THEN -1 ELSE stop.n

\* The stop itertools.islice is given (-1: None), per branch.
IsliceStop(form, stop) == IF form = "IP" \/ stop.k = "none" THEN -1 ELSE stop.n

\* Mutant: branch [int:Callable] passes no start to islice.
IsliceStartDropped(form, start) == IF form = "II" THEN start.n ELSE 0

\* The start itertools.islice is given, per branch.
IsliceStart(form, start) == IF form = "PI" THEN 0 ELSE start.n

\* One result of next() on a stage of the pipeline: whether an element came,
\* the element, the source position and the stage states afterwards.
Got(v, p, s) == [ok |-> TRUE, val |-> v, pos |-> p, st |-> s]

Stop(p, s) == [ok |-> FALSE, val |-> 0, pos |-> p, st |-> s]

\* next() on the source's iterator.
RawNext(p, s) == IF p < Len(src) THEN Got(src[p + 1], p + 1, s) ELSE Stop(p, s)

\* Mutant: the step is not passed on to islice.
IslicePlanStepOne(nxt, step, stop) ==
    IF stop # -1 /\ nxt + 1 > stop THEN stop ELSE nxt + 1

\* islice: the offset of the next element to yield, after the one at nxt.
IslicePlan(nxt, step, stop) ==
    IF stop # -1 /\ nxt + step > stop THEN stop ELSE nxt + step

\* next() on itertools.islice(source, start, stop, step): skip up to the next
\* wanted offset, stop at the stop offset, else yield and plan the next one.
IsliceNext(p, s) ==
    LET stop == IsliceStop(s.form, s.stop)
        step == s.step
        need == s.nxt - s.cnt
        dead(q) == Stop(q, [s EXCEPT !.alive = FALSE])
        planned == IslicePlan(s.nxt, step, stop)
    IN  IF ~s.alive THEN Stop(p, s)
        ELSE IF p + need > Len(src) THEN dead(Len(src))
        ELSE IF stop # -1 /\ s.nxt >= stop THEN dead(p + need)
        ELSE IF p + need >= Len(src) THEN dead(p + need)
        ELSE Got(src[p + need + 1], p + need + 1,
                 [s EXCEPT !.cnt = s.nxt + 1, !.nxt = planned])

\* next() on what starts_when/stops_when wrap in the branch taken.
InnerNext(p, s) == IF s.form = "PP" THEN RawNext(p, s) ELSE IsliceNext(p, s)

\* next() on itertools.dropwhile(lambda x: not condition(x), inner)
RECURSIVE DropNext(_, _)
DropNext(p, s) ==
    LET r == InnerNext(p, s) IN
    IF ~r.ok \/ s.started THEN r
    ELSE IF Sat(s.start, r.val)
           THEN Got(r.val, r.pos, [r.st EXCEPT !.started = TRUE])
           ELSE DropNext(r.pos, r.st)

\* next() on itertools.takewhile(lambda x: not condition(x), inner), inner
\* being the dropwhile in branch PP and the islice in branch IP.
TakeNext(p, s) ==
    IF s.stopped THEN Stop(p, s)
    ELSE LET r == IF s.form = "PP" THEN DropNext(p, s) ELSE IsliceNext(p, s) IN
         IF ~r.ok THEN r
         ELSE IF Sat(s.stop, r.val)
                THEN Stop(r.pos, [r.st EXCEPT !.stopped = TRUE])
                ELSE r

\* next() on the iterator iterslice returned.
SliceStep(p, s) ==
    CASE s.form = "PP" -> TakeNext(p, s)
      [] s.form = "PI" -> DropNext(p, s)
      [] s.form = "IP" -> TakeNext(p, s)
      [] OTHER         -> IsliceNext(p, s)

InitSlice ==
    /\ src \in SeqsUpTo(MaxSliceLen)
    /\ InitWrapper
    /\ sl = SliceIdle
    /\ gen = GenIdle

\* g.next() before the slice is taken: the slice starts where g stands.
ReadAhead ==
    /\ sl.phase = "idle"
    /\ GNext

\* IterableWrapper.__getitem__ with a slice: iterslice(self.iterator, start,
\* stop, step) raises or returns a lazy iterator; nothing is read.
GetSlice ==
    /\ sl.phase = "idle"
    /\ \E b1 \in Boundaries, b2 \in Boundaries, k \in Steps :
         LET start == StartOf(b1)
             step  == StepOf(k)
             form  == FormOf(start, b2)
             fails == StepRejected(step) \/ IsliceRejects(form, step)
         IN  /\ sl' = [SliceIdle EXCEPT
                      !.phase = IF fails THEN "error" ELSE "open",
                      !.err = IF fails THEN "ValueError" ELSE "none",
                      !.start = start, !.stop = b2, !.step = step,
                      !.form = form,
                      !.nxt = IsliceStart(form, start), !.alive = ~fails,
                      !.pos0 = pos]
             /\ last' = IF fails THEN Raised("getitem", 0, "ValueError")
                                 ELSE Returned("getitem", 0, 0)
    /\ UNCHANGED <<src, pos, teeVars, gen>>

\* IterableWrapper.__getitem__ with an index that is no integer, no callable
\* and no slice (a string): index.start raises AttributeError, ValueError.
GetOther ==
    /\ sl.phase = "idle"
    /\ sl' = [SliceIdle EXCEPT !.phase = "error", !.err = "ValueError",
                               !.form = "other", !.pos0 = pos]
    /\ last' = Raised("getitem", 0, "ValueError")
    /\ UNCHANGED <<src, pos, teeVars, gen>>

\* next() on the wrapper __getitem__ returned for a slice.
SliceNext ==
    /\ sl.phase = "open"
    /\ LET r == SliceStep(pos, sl) IN
       /\ pos' = r.pos
       /\ sl' = [r.st EXCEPT !.out = IF r.ok THEN Append(@, r.val) ELSE @,
                             !.phase = IF r.ok THEN "open" ELSE "done"]
       /\ last' = IF r.ok THEN Returned("next", -1, r.val)
                  ELSE Raised("next", -1, "StopIteration")
    /\ UNCHANGED <<src, teeVars, gen>>

NextSlice ==
    \/ ReadAhead
    \/ GetSlice
    \/ GetOther
    \/ SliceNext

SpecSlice == InitSlice /\ [][NextSlice]_vars

\* ------------------------------------------------------------------ claims
TeeCopies == {i \in 1..Len(handles) : handles[i].kind = "tee"}

Copies == {i \in 1..Len(handles) : handles[i].kind = "copy"}

\* C1: tee(n) returns n wrappers and, as long as only these n copies are
\* read, each copy yields the elements that remained in g when tee() was
\* called, in source order: what it has yielded followed by what it still
\* holds is that sequence, and when it reports exhaustion it has yielded all
\* of it, whatever the other copies have read.
C1_TeeCopiesReplay ==
    /\ last.op = "tee" =>
         Cardinality({i \in TeeCopies : handles[i].call = teeCalls}) = last.res
    /\ \A i \in TeeCopies :
         LET h == handles[i] IN
         h.clean =>
           /\ IsPrefix(h.out, h.snap)
           /\ h.out \o Future(ObjectOf(h)) = h.snap
           /\ h.done => h.out = h.snap

\* Two copies of one tee() call, read in turns: one has yielded the whole
\* sequence of at least two elements, the other is part way through it.
C1_Witness ==
    \E i, j \in TeeCopies :
        /\ i # j
        /\ handles[i].call = handles[j].call
        /\ handles[i].clean /\ handles[j].clean
        /\ handles[i].done
        /\ Len(handles[i].snap) >= 2
        /\ handles[i].out = handles[i].snap
        /\ Len(handles[j].out) = 1

\* C2: a call of the iteration entry point on g raises RuntimeError exactly
\* when tee() has been called on g before.
C2_IterRaisesAfterTee ==
    last.op = "iter" => ((last.err = "RuntimeError") <=> (teeCalls > 0))

C2_Witness == last.op = "iter" /\ last.err = "RuntimeError" /\ teeCalls > 0

\* C3: after tee() has been called on g, every read attempt through g fails
\* with the post-fork error (stated for next()).
C3_OriginalFrozen ==
    (last.op = "next" /\ last.who = 0 /\ teeCalls > 0)
        => last.err = "RuntimeError"

\* C4: after c = g.copy(), as long as only g and c are read, both yield the
\* sequence that remained in g when copy() was called, in order, each at its
\* own pace, and copy() does not mark g as forked.
C4_CopyIndependent ==
    /\ tee_called => teeCalls > 0
    /\ \A i \in Copies :
         LET h == handles[i] IN
         h.clean =>
           /\ IsPrefix(h.out, h.snap)
           /\ IsPrefix(h.gout, h.snap)
           /\ h.done => h.out = h.snap
           /\ h.gdone => h.gout = h.snap

\* g and its copy have both been read to the end and both yielded the same
\* sequence of at least two elements; g is not marked as forked.
C4_Witness ==
    \E i \in Copies :
        /\ handles[i].clean
        /\ handles[i].done /\ handles[i].gdone
        /\ Len(handles[i].snap) >= 2
        /\ handles[i].out = handles[i].snap
        /\ handles[i].gout = handles[i].snap
        /\ ~tee_called

\* ------------------------------------------------------- claims on slices
\* The elements g held when the slice was taken.
S0 == Rest(src, sl.pos0)

\* Whether the boundary b, read as a condition, is true of x: the predicate
\* itself, or equality with the value.
Accepts(b, x) == (b.k = "pred" /\ x \in b.p) \/ (b.k = "val" /\ x = b.n)

\* The position in s of the first element the condition b accepts, or one
\* past the end.
FirstAt(b, s) ==
    IF \E i \in 1..Len(s) : Accepts(b, s[i])
      THEN CHOOSE i \in 1..Len(s) :
             Accepts(b, s[i]) /\ \A j \in 1..(i - 1) : ~Accepts(b, s[j])
      ELSE Len(s) + 1

\* s from its first element accepted by b on (empty if there is none).
FromFirst(b, s) == SubSeq(s, FirstAt(b, s), Len(s))

\* s up to, and without, its first element accepted by b.
UntilFirst(b, s) == SubSeq(s, 1, FirstAt(b, s) - 1)

\* The list slice s[a:b:k] for a >= 0, k >= 1 and b >= 0 or absent (-1).
ListSlice(s, a, b, k) ==
    LET hi == IF b = -1 \/ b > Len(s) THEN Len(s) ELSE b
        n  == IF hi <= a THEN 0 ELSE (hi - a + k - 1) \div k
    IN  [j \in 1..n |-> s[a + (j - 1) * k + 1]]

\* The stop of the slice as a list-slice bound.
StopN == IF sl.stop.k = "int" THEN sl.stop.n ELSE -1

SliceDone == sl.phase = "done" /\ sl.form # "other"

\* C5 (as claimed): g[P:n] skips to the first element satisfying P and then
\* takes up to n elements, n being counted from that element.
C5_StopCountedFromSkipPoint ==
    (SliceDone /\ sl.start.k = "pred" /\ sl.stop.k = "int" /\ sl.step = 1)
        => sl.out = ListSlice(FromFirst(sl.start, S0), 0, sl.stop.n, 1)

\* C5 (amended): g[P:n:k] is the list slice S[0:n:k] from its first element
\* satisfying P on: the stop offset n is counted from the beginning of the
\* source, not from the skip point.
C5_StopCountedFromSource ==
    (SliceDone /\ sl.start.k = "pred" /\ sl.stop.k = "int")
        => sl.out = FromFirst(sl.start, ListSlice(S0, 0, sl.stop.n, sl.step))

\* A slice g[P:n] read to its end that skipped an element, yielded one, and
\* left out an element of the source beyond offset n.
C5_Witness ==
    /\ SliceDone /\ sl.start.k = "pred" /\ sl.stop.k = "int" /\ sl.step = 1
    /\ sl.out # <<>>
    /\ FirstAt(sl.start, S0) > 1
    /\ Len(S0) > sl.stop.n

\* C6: g[P:] yields S from its first element satisfying P to the end (nothing
\* if there is none); g[P:Q] yields that run cut just before its first
\* element, the start element included, for which Q is true.
C6_PredicateStart ==
    (SliceDone /\ sl.start.k = "pred" /\ sl.step = 1) =>
        /\ sl.stop.k = "none" => sl.out = FromFirst(sl.start, S0)
        /\ sl.stop.k = "pred" =>
             sl.out = UntilFirst(sl.stop, FromFirst(sl.start, S0))

\* A slice g[P:Q] read to its end that skipped an element, yielded one and
\* was cut by Q before the end of the source.
C6_Witness ==
    /\ SliceDone /\ sl.start.k = "pred" /\ sl.stop.k = "pred" /\ sl.step = 1
    /\ sl.out # <<>>
    /\ FirstAt(sl.start, S0) > 1
    /\ Len(sl.out) < Len(FromFirst(sl.start, S0))

\* C7: g[a:Q] (a an integer or absent) yields the elements of S from offset a
\* up to, and without, the first element at or after offset a for which Q is
\* true, and all of S from offset a if there is none.
C7_PredicateStop ==
    (SliceDone /\ sl.start.k = "int" /\ sl.stop.k = "pred" /\ sl.step = 1)
        => sl.out = UntilFirst(sl.stop, Rest(S0, sl.start.n))

\* A slice g[a:Q] with a > 0 read to its end that yielded an element and was
\* cut by Q, an element before offset a satisfying Q as well.
C7_Witness ==
    /\ SliceDone /\ sl.start.k = "int" /\ sl.stop.k = "pred" /\ sl.step = 1
    /\ sl.start.n > 0
    /\ sl.out # <<>>
    /\ Len(sl.out) < Len(Rest(S0, sl.start.n))
    /\ \E i \in 1..sl.start.n : Accepts(sl.stop, S0[i])

\* C8: for integers a, b >= 0 (each possibly absent) and a step k >= 1,
\* g[a:b:k] yields the elements of the list slice S[a:b:k], in order.
C8_IntSlice ==
    (SliceDone /\ sl.start.k = "int" /\ sl.stop.k \in {"int", "none"})
        => sl.out = ListSlice(S0, sl.start.n, StopN, sl.step)

\* A slice g[a:b:k] with a > 0, k > 1 and b before the end of S, read to its
\* end, that yielded an element.
C8_Witness ==
    /\ SliceDone /\ sl.start.k = "int" /\ sl.stop.k = "int"
    /\ sl.start.n > 0 /\ sl.step > 1 /\ sl.stop.n < Len(S0)
    /\ Len(sl.out) = 1

\* What a slice yields, per branch of iterslice.
SliceExpected ==
    CASE sl.form = "PP" -> UntilFirst(sl.stop, FromFirst(sl.start, S0))
      [] sl.form = "PI" -> FromFirst(sl.start, ListSlice(S0, 0, StopN, sl.step))
      [] sl.form = "IP" ->
           UntilFirst(sl.stop, ListSlice(S0, sl.start.n, -1, sl.step))
      [] OTHER -> ListSlice(S0, sl.start.n, StopN, sl.step)

HasValueBoundary == sl.start.k = "val" \/ sl.stop.k = "val"

\* C9 (as claimed): a slice with a start or stop that is neither an integer,
\* nor a callable, nor absent fails with a ValueError at call time.
C9_ValueBoundaryRaises ==
    (sl.phase # "idle" /\ sl.form # "other" /\ HasValueBoundary)
        => sl.err = "ValueError"

\* C9 (amended): such a boundary (a truthy one) does not make the slice fail:
\* the value is used as the condition "element == value". The ValueError
\* raised at call time, with nothing consumed, is that of an index which is
\* itself neither an integer, nor a callable, nor a slice.
C9_ValueBoundaryIsEquality ==
    /\ (sl.phase # "idle" /\ sl.form = "other") =>
          (sl.err = "ValueError" /\ pos = sl.pos0 /\ sl.out = <<>>)
    /\ (sl.phase # "idle" /\ sl.form # "other" /\ HasValueBoundary
          /\ sl.step >= 1) =>
          /\ sl.err = "none"
          /\ sl.phase = "done" => sl.out = SliceExpected

\* A slice with a value as start, read to its end: elements were skipped and
\* the run from the first element equal to the value was yielded.
C9_Witness ==
    /\ SliceDone /\ sl.start.k = "val" /\ sl.err = "none"
    /\ Len(sl.out) >= 2
    /\ sl.out[1] = sl.start.n
    /\ FirstAt(sl.start, S0) > 1

\* C10: a negative step makes the slice fail with a ValueError whatever start
\* and stop are, at the call, with no element consumed.
C10_NegativeStepRaises ==
    (sl.phase # "idle" /\ sl.form # "other" /\ sl.step < 0) =>
        /\ sl.phase = "error"
        /\ sl.err = "ValueError"
        /\ pos = sl.pos0
        /\ sl.out = <<>>

\* A slice with predicates as start and stop and a negative step, refused
\* while elements remained in the source.
C10_Witness ==
    /\ sl.phase = "error" /\ sl.err = "ValueError" /\ sl.step < 0
    /\ sl.start.k = "pred" /\ sl.stop.k = "pred"
    /\ pos = sl.pos0 /\ pos < Len(src)

\* ========================================================== index lookup
\* Mutant: the deque keeps the first n elements.
DequeKeepsHead(s, n) == IF Len(s) <= n THEN s ELSE SubSeq(s, 1, n)

\* collections.deque(s, maxlen=n) over a finite s: the last n elements of s.
DequeOf(s, n) == IF Len(s) <= n THEN s ELSE SubSeq(s, Len(s) - n + 1, Len(s))

\* The outcome of a lookup: whether an element was found, the element, and
\* how many elements of the cursor were consumed.
Found(v, used) == [ok |-> TRUE, val |-> v, used |-> used]

NotFound(used) == [ok |-> FALSE, val |-> 0, used |-> used]

\* Mutant: the islice of at_index is opened one element too far.
IsliceUpToNext(index) == index + 2

\* at_index: the stop of islice(iterable, index, index + 1); the islice reads
\* that many elements if the iterable has them.
IsliceUpTo(index) == index + 1

\* at_index(iterable, index), s being what the iterable still holds: a
\* negative index pops the left of a deque of the last abs(index) elements
\* (IndexError only if the deque is empty), an index >= 0 takes the one
\* element of the islice (StopIteration if s ends first); both errors are
\* turned into IndexError.
AtIndex(s, index) ==
    IF index < 0
      THEN LET d == DequeOf(s, -index) IN
           IF d = <<>> THEN NotFound(Len(s)) ELSE Found(Head(d), Len(s))
      ELSE IF index < Len(s)
             THEN Found(s[index + 1],
                        IF IsliceUpTo(index) > Len(s) THEN Len(s)
                        ELSE IsliceUpTo(index))
             ELSE NotFound(Len(s))

\* first_true(iterable, func): next() on (x for x in iterable if func(x)),
\* having read k elements of s; P is the set of elements func accepts.
RECURSIVE FirstTrue(_, _, _)
FirstTrue(s, P, k) ==
    IF k >= Len(s) THEN NotFound(Len(s))
    ELSE IF s[k + 1] \in P THEN Found(s[k + 1], k + 1)
    ELSE FirstTrue(s, P, k + 1)

\* What __getitem__ leaves behind for an index lookup.
Looked(idx, r) ==
    [kind |-> "index", phase |-> "done", pos0 |-> pos, out |-> <<>>,
     err |-> IF r.ok THEN "none" ELSE "IndexError", idx |-> idx,
     res |-> r.val]

\* What __getitem__ returns or raises for an index lookup.
LookupResult(r) == IF r.ok THEN Returned("getitem", 0, r.val)
                   ELSE Raised("getitem", 0, "IndexError")

\* g.next() before the lookup or the derived generator: it starts where g
\* stands.
GenReadAhead ==
    /\ gen.kind = "idle"
    /\ GNext

\* g.next() after the lookup returned or raised, or after the derived
\* generator ended.
GenReadAfter ==
    /\ gen.phase \in {"done", "error"}
    /\ GNext

\* IterableWrapper.__getitem__ with an integer: at_index(self.iterator, index)
GetIndex ==
    /\ gen.kind = "idle"
    /\ \E i \in (-MaxIdx)..MaxIdx :
         LET r == AtIndex(Rest(src, pos), i) IN
         /\ pos' = pos + r.used
         /\ gen' = Looked(IntB(i), r)
         /\ last' = LookupResult(r)
    /\ UNCHANGED <<src, teeVars, sl>>

\* IterableWrapper.__getitem__ with a callable: first_true(self.iterator, index)
GetFirstTrue ==
    /\ gen.kind = "idle"
    /\ \E P \in SUBSET Vals :
         LET r == FirstTrue(Rest(src, pos), P, 0) IN
         /\ pos' = pos + r.used
         /\ gen' = Looked(PredB(P), r)
         /\ last' = LookupResult(r)
    /\ UNCHANGED <<src, teeVars, sl>>

NextIndex ==
    \/ GenReadAhead
    \/ GetIndex
    \/ GetFirstTrue
    \/ GenReadAfter

SpecIndex == InitSlice /\ [][NextIndex]_vars

\* ------------------------------------------------- claims on index lookup
\* The elements g held when the lookup was made or the generator derived.
G0 == Rest(src, gen.pos0)

\* The position in G0 (from 1) of the element the lookup is after, for an
\* index >= 0 or a predicate.
LookupAt == IF gen.idx.k = "pred" THEN FirstAt(gen.idx, G0) ELSE gen.idx.n + 1

\* C11: g[i] for an integer i >= 0 returns S[i], g[P] for a predicate P the
\* first element satisfying P; the cursor is consumed up to and including the
\* returned element: what g holds after the lookup is S from the element
\* after the returned one on, and the reads of g that follow yield these
\* elements in order. If S ends first an IndexError is raised and g yields
\* nothing any more.
C11_LookupConsumesUpTo ==
    (gen.kind = "index" /\ (gen.idx.k = "pred" \/ gen.idx.n >= 0)) =>
        IF LookupAt <= Len(G0)
          THEN /\ gen.err = "none"
               /\ gen.res = G0[LookupAt]
               /\ last.op = "getitem" => Future(iterator) = Rest(G0, LookupAt)
               /\ (last.op = "next" /\ last.res # Default) =>
                     /\ pos > gen.pos0 + LookupAt
                     /\ last.res = G0[pos - gen.pos0]
               /\ (last.op = "next" /\ last.res = Default) =>
                     pos = Len(src)
          ELSE /\ gen.err = "IndexError"
               /\ Future(iterator) = <<>>
               /\ last.op = "next" => last.res = Default

\* g[P] found its element after skipping another one, and the next read of g
\* yielded the element after the one returned.
C11_Witness ==
    /\ gen.kind = "index" /\ gen.idx.k = "pred" /\ gen.err = "none"
    /\ LookupAt > 1
    /\ last.op = "next" /\ pos = gen.pos0 + LookupAt + 1
    /\ last.res = G0[LookupAt + 1]
    /\ last.res # gen.res

\* C12: for a negative integer i, g[i] returns S[len(S)+i] when |i| <= len(S)
\* and raises the IndexError when S has fewer than |i| elements.
C12_NegativeIndex ==
    (gen.kind = "index" /\ gen.idx.k = "int" /\ gen.idx.n < 0) =>
        IF -gen.idx.n <= Len(G0)
          THEN gen.err = "none" /\ gen.res = G0[Len(G0) + gen.idx.n + 1]
          ELSE gen.err = "IndexError"

\* ====================================================== derived generators
\* The default firsts() and lasts() pad with: not an element of any source.
PadDefault == 0

\* The counts a caller may give firsts() and lasts(), -1 standing for the
\* negative ones, and the sizes a caller may give chunks() and window().
ItemCounts == (-1)..MaxItems

Sizes == 0..MaxItems

\* Whether the interpreter turns a StopIteration that escapes a generator's
\* body into a RuntimeError (PEP 479): no on Python 2.7 and 3.3 to 3.6, yes
\* on 3.7 and later; setup.py puts no bound on the interpreter.
GeneratorStop == BOOLEAN

\* A generator function was called on self.iterator and wrapped: nothing runs
\* and nothing is read before the first next().
Derived(kind, n) ==
    [kind |-> kind, phase |-> "open", pos0 |-> pos, out |-> <<>>,
     err |-> "none", n |-> n, stage |-> "new", i |-> 0, k |-> 0, left |-> 0,
     buf |-> <<>>, pep479 |-> FALSE, cast |-> TRUE]

\* One result of next() on a derived generator: an element, the end, or an
\* error, with the source position and the generator afterwards.
Yield(v, p, s) == [to |-> "yield", val |-> v, pos |-> p, st |-> s]

End(p, s) == [to |-> "end", val |-> 0, pos |-> p, st |-> s]

Fail(e, p, s) == [to |-> e, val |-> 0, pos |-> p, st |-> s]

\* next(it), it being self.iterator read at position p.
HasAt(p) == p < Len(src)

\* ---------------------------------------------------------------- firsts
\* Mutant: zip asks the iterable before it asks range(items).
ZipReadsSourceAlways(rangeHas) == TRUE

\* zip(range(items), iterable) asks range first and asks the iterable only
\* when range gave a number.
ZipReadsSource(rangeHas) == rangeHas

\* firsts: for x in range(items - (i + 1)): yield default
FirstsPad(p, s) ==
    IF s.left > 0 THEN Yield(PadDefault, p, [s EXCEPT !.left = @ - 1])
    ELSE End(p, s)

\* The number of defaults firsts yields once its zip loop is over, i being
\* the loop variable (0 if the loop never ran).
FirstsShortfall(items, i) ==
    IF items - (i + 1) > 0 THEN items - (i + 1) ELSE 0

\* next() on firsts(iterable, items, default)
FirstsNext(p, s) ==
    IF s.stage = "new" /\ s.n < 0 THEN Fail("ValueError", p, s)
    ELSE IF s.stage = "pad" THEN FirstsPad(p, s)
    ELSE LET rangeHas == s.k < s.n
             reads    == ZipReadsSource(rangeHas)
             got      == reads /\ HasAt(p)
             q        == IF got THEN p + 1 ELSE p
         IN  IF rangeHas /\ got
               THEN Yield(src[p + 1], q,
                          [s EXCEPT !.stage = "zip", !.i = s.k, !.k = @ + 1])
               ELSE FirstsPad(q, [s EXCEPT !.stage = "pad",
                                           !.left = FirstsShortfall(s.n, s.i)])

\* ----------------------------------------------------------------- lasts
\* lasts: for y in last_items: yield y
LastsTail(p, s) ==
    IF s.left > 0 THEN Yield(PadDefault, p, [s EXCEPT !.left = @ - 1])
    ELSE IF s.buf # <<>> THEN Yield(Head(s.buf), p, [s EXCEPT !.buf = Tail(@)])
    ELSE End(p, s)

\* next() on lasts(iterable, items, default): the first one reads the whole
\* iterable into deque(iterable, maxlen=items), which refuses a negative
\* maxlen.
LastsNext(p, s) ==
    IF s.stage = "new"
      THEN IF s.n < 0 THEN Fail("ValueError", p, s)
           ELSE LET d == DequeOf(Rest(src, p), s.n) IN
                LastsTail(Len(src), [s EXCEPT !.stage = "tail", !.buf = d,
                                              !.left = s.n - Len(d)])
      ELSE LastsTail(p, s)

\* ---------------------------------------------------------------- chunks
\* What becomes of the StopIteration next(it) raises inside chunks' body.
ChunksEnd(p, s) == IF s.pep479 THEN Fail("RuntimeError", p, s) ELSE End(p, s)

\* next() on chunks(iterable, chunksize, cast): next(it), then the cast of
\* that element chained with islice(it, chunksize - 1), which refuses a
\* negative stop.
ChunksNext(p, s) ==
    IF ~HasAt(p) THEN ChunksEnd(p, s)
    ELSE IF s.n - 1 < 0 THEN Fail("ValueError", p + 1, s)
    ELSE LET q == IF p + s.n > Len(src) THEN Len(src) ELSE p + s.n IN
         Yield(SubSeq(src, p + 1, q), q, [s EXCEPT !.stage = "loop"])

\* ---------------------------------------------------------------- window
\* Mutant: the deque grows without bound.
DequeAppendNoEvict(d, x, maxlen) == Append(d, x)

\* deque.append(x) on a deque of the given maxlen.
DequeAppend(d, x, maxlen) ==
    IF maxlen = 0 THEN <<>>
    ELSE IF Len(d) >= maxlen THEN Append(Tail(d), x)
    ELSE Append(d, x)

\* next() on window(iterable, size, cast): the first one fills
\* deque(islice(iterable, size), size) and yields it (cast, or as it is when
\* there is no cast), the others append one element each and yield again,
\* until the iterable ends.
WindowNext(p, s) ==
    IF s.stage = "new"
      THEN LET q == IF p + s.n > Len(src) THEN Len(src) ELSE p + s.n
               d == DequeOf(SubSeq(src, p + 1, q), s.n)
           IN  Yield(d, q, [s EXCEPT !.stage = "roll", !.buf = d])
      ELSE IF ~HasAt(p) THEN End(p, s)
      ELSE LET d == DequeAppend(s.buf, src[p + 1], s.n) IN
           Yield(d, p + 1, [s EXCEPT !.buf = d])

\* --------------------------------------------------------------- groupby
\* The values a key function of groupby may return, and the key functions;
\* keyfunc=None is the identity.
GroupKeys == 1..2

GroupKeyFuncs == [Vals -> GroupKeys]

\* Whether x goes after y in sorted(..., key=key, reverse=reverse) when x
\* came after y in the iterable: the sort is stable in both directions.
StaysAfter(x, y, key, reverse) ==
    IF reverse THEN key[y] >= key[x] ELSE key[y] <= key[x]

\* t with x inserted, t being sorted and x coming from later in the iterable.
RECURSIVE InsertSorted(_, _, _, _)
InsertSorted(t, x, key, reverse) ==
    IF t = <<>> THEN <<x>>
    ELSE IF StaysAfter(x, t[Len(t)], key, reverse) THEN Append(t, x)
    ELSE Append(InsertSorted(SubSeq(t, 1, Len(t) - 1), x, key, reverse),
                t[Len(t)])

\* Mutant: groupby does not sort.
Unsorted(s, key, reverse) == s

\* sorted(iterable, key=keyfunc, reverse=reverse)
RECURSIVE SortedBy(_, _, _)
SortedBy(s, key, reverse) ==
    IF s = <<>> THEN <<>>
    ELSE InsertSorted(SortedBy(SubSeq(s, 1, Len(s) - 1), key, reverse),
                      s[Len(s)], key, reverse)

\* itertools.groupby(t, keyfunc) with each group cast to a tuple: one
\* (key, group) pair per run of consecutive elements of equal key.
RECURSIVE GroupRuns(_, _)
GroupRuns(t, key) ==
    IF t = <<>> THEN <<>>
    ELSE LET rest == GroupRuns(Tail(t), key) IN
         IF rest # <<>> /\ rest[1][1] = key[t[1]]
           THEN <<<<rest[1][1], <<t[1]>> \o rest[1][2]>>>> \o Tail(rest)
           ELSE <<<<key[t[1]], <<t[1]>>>>>> \o rest

\* next() on groupby(iterable, keyfunc, reverse, cast): the first one sorts
\* the whole iterable and groups it, each one yields the next pair.
GroupByNext(p, s) ==
    LET t == IF s.stage = "new"
               THEN [s EXCEPT !.stage = "groups",
                       !.buf = GroupRuns(SortedBy(Rest(src, p), s.key,
                                                  s.reverse), s.key)]
               ELSE s
        q == IF s.stage = "new" THEN Len(src) ELSE p
    IN  IF t.buf = <<>> THEN End(q, t)
        ELSE Yield(Head(t.buf), q, [t EXCEPT !.buf = Tail(@)])

\* ------------------------------------------------------- skip_duplicates
\* The elements of a source given to skip_duplicates.
DedupVals == 1..3

\* What the key function does with an element: it raises a TypeError of its
\* own, returns an object that cannot be hashed, or returns a fingerprint.
KeyRaises == -1

Unhashable == 0

Fingerprints == 1..2

KeyResults == {KeyRaises, Unhashable} \cup Fingerprints

Keys == [DedupVals -> KeyResults]

\* key=None: the element is its own fingerprint.
KeyNone == [x \in DedupVals |-> x]

\* fingerprint = None, and no fingerprints.add() pending.
NoFingerprint == -2

\* skip_duplicates(self.iterator, key, fingerprints) was called and wrapped:
\* F is the content of the set the caller supplied (if supplied), seen that
\* of the set the generator works on, shared whether they are one object.
Deduping(key, nokey, supplied, F) ==
    [kind |-> "dedup", phase |-> "open", pos0 |-> pos, out |-> <<>>,
     err |-> "none", msg |-> "none", stage |-> "new", key |-> key,
     nokey |-> nokey, supplied |-> supplied, F0 |-> F, F |-> F, seen |-> {},
     shared |-> FALSE, pend |-> NoFingerprint, fingerprint |-> NoFingerprint]

\* "fingerprints = fingerprints or set()": the caller's object is used if it
\* is truthy, a new set otherwise.
UsesCallers(supplied, F) == supplied /\ F # {}

\* Mutant: an element is never taken for a duplicate.
SeenNever(fp, seen) == FALSE

\* "x not in fingerprints" / "fingerprint not in fingerprints", negated.
Seen(fp, seen) == fp \in seen

\* Mutant: every TypeError is reported as an unhashable fingerprint.
HashAlwaysFails(fp) == TRUE

\* Whether hash(fingerprint) raises TypeError.
HashFails(fp) == fp = Unhashable

\* except TypeError: the error is replaced by the unhashable-fingerprint one
\* if hash(fingerprint) fails and re-raised as it is otherwise.
DedupFail(p, s) ==
    Fail("TypeError", p,
         [s EXCEPT !.msg = IF HashFails(s.fingerprint) THEN "unhashable"
                           ELSE "reraised"])

\* The for loop of skip_duplicates, up to its next yield.
RECURSIVE DedupLoop(_, _)
DedupLoop(p, s) ==
    IF ~HasAt(p) THEN End(p, s)
    ELSE LET x  == src[p + 1]
             fp == IF s.nokey THEN x ELSE s.key[x]
             t  == IF s.nokey THEN s ELSE [s EXCEPT !.fingerprint = fp]
         IN  IF ~s.nokey /\ fp = KeyRaises THEN DedupFail(p + 1, s)
             ELSE IF fp = Unhashable THEN DedupFail(p + 1, t)
             ELSE IF Seen(fp, t.seen) THEN DedupLoop(p + 1, t)
             ELSE Yield(x, p + 1, [t EXCEPT !.pend = fp])

\* next() on skip_duplicates(iterable, key, fingerprints): the first one
\* chooses the set, the others resume after the yield with the add() that
\* follows it.
DedupNext(p, s) ==
    LET uses == UsesCallers(s.supplied, s.F)
        s1 == IF s.stage = "new"
                THEN [s EXCEPT !.stage = "loop", !.shared = uses,
                               !.seen = IF uses THEN s.F ELSE {}]
                ELSE s
        s2 == IF s1.pend # NoFingerprint
                THEN [s1 EXCEPT !.seen = @ \cup {s1.pend},
                                !.F = IF s1.shared THEN @ \cup {s1.pend} ELSE @,
                                !.pend = NoFingerprint]
                ELSE s1
    IN  DedupLoop(p, s2)

\* --------------------------------------------------------------- actions
\* IterableWrapper.firsts(items, default)
Firsts ==
    /\ gen.kind = "idle"
    /\ \E n \in ItemCounts : gen' = Derived("firsts", n)
    /\ last' = Returned("firsts", 0, 0)
    /\ UNCHANGED <<src, pos, teeVars, sl>>

\* IterableWrapper.lasts(items, default)
Lasts ==
    /\ gen.kind = "idle"
    /\ \E n \in ItemCounts : gen' = Derived("lasts", n)
    /\ last' = Returned("lasts", 0, 0)
    /\ UNCHANGED <<src, pos, teeVars, sl>>

\* IterableWrapper.chunks(size, cast)
Chunks ==
    /\ gen.kind = "idle"
    /\ \E n \in Sizes, b \in GeneratorStop :
         gen' = [Derived("chunks", n) EXCEPT !.pep479 = b]
    /\ last' = Returned("chunks", 0, 0)
    /\ UNCHANGED <<src, pos, teeVars, sl>>

\* IterableWrapper.window(size, cast)
Window ==
    /\ gen.kind = "idle"
    /\ \E n \in Sizes, c \in BOOLEAN :
         gen' = [Derived("window", n) EXCEPT !.cast = c]
    /\ last' = Returned("window", 0, 0)
    /\ UNCHANGED <<src, pos, teeVars, sl>>

\* IterableWrapper.groupby(keyfunc, reverse, cast)
GroupBy ==
    /\ gen.kind = "idle"
    /\ \E key \in GroupKeyFuncs, reverse \in BOOLEAN :
         gen' = Derived("groupby", 0) @@ [key |-> key, reverse |-> reverse]
    /\ last' = Returned("groupby", 0, 0)
    /\ UNCHANGED <<src, pos, teeVars, sl>>

\* Mutant: every yielded window is a copy of the deque.
CollectedCopies(s, out, v) == Append(out, v)

\* What the objects the consumer has collected show once v was yielded:
\* window with no cast yields its one deque each time, so every reference to
\* it shows its new content; everything else yields a new object.
Collected(s, out, v) ==
    IF s.kind = "window" /\ ~s.cast THEN [j \in 1..(Len(out) + 1) |-> v]
    ELSE Append(out, v)

\* The derived generators GenNext reads.
GenKinds == {"firsts", "lasts", "chunks", "window", "dedup", "groupby"}

\* next() on the wrapper a derived generator was put in.
GenStep(p, s) ==
    CASE s.kind = "firsts" -> FirstsNext(p, s)
      [] s.kind = "lasts"  -> LastsNext(p, s)
      [] s.kind = "chunks" -> ChunksNext(p, s)
      [] s.kind = "window" -> WindowNext(p, s)
      [] s.kind = "groupby" -> GroupByNext(p, s)
      [] OTHER             -> DedupNext(p, s)

GenNext ==
    /\ gen.phase = "open"
    /\ gen.kind \in GenKinds
    /\ LET r == GenStep(pos, gen) IN
       /\ pos' = r.pos
       /\ gen' = [r.st EXCEPT
                    !.out = IF r.to = "yield" THEN Collected(r.st, @, r.val)
                            ELSE @,
                    !.phase = CASE r.to = "yield" -> "open"
                                [] r.to = "end"   -> "done"
                                [] OTHER          -> "error",
                    !.err = IF r.to \in {"yield", "end"} THEN "none" ELSE r.to]
       /\ last' = CASE r.to = "yield" -> Returned("next", -1, 0)
                    [] r.to = "end"   -> Raised("next", -1, "StopIteration")
                    [] OTHER          -> Raised("next", -1, r.to)
    /\ UNCHANGED <<src, teeVars, sl>>

NextGen ==
    \/ GenReadAhead
    \/ Firsts
    \/ Lasts
    \/ Chunks
    \/ Window
    \/ GroupBy
    \/ GenNext
    \/ GenReadAfter

SpecGen == InitSlice /\ [][NextGen]_vars

\* ------------------------------------------------------------ SpecDedup
SeqsOver(S, n) == UNION {[1..k -> S] : k \in 0..n}

InitDedup ==
    /\ src \in SeqsOver(DedupVals, MaxLen)
    /\ InitWrapper
    /\ sl = SliceIdle
    /\ gen = GenIdle

\* IterableWrapper.skip_duplicates(key, fingerprints), and the free function
\* for key=None
SkipDuplicates ==
    /\ gen.kind = "idle"
    /\ \E key \in Keys \cup {KeyNone}, supplied \in BOOLEAN,
          F \in SUBSET Fingerprints :
         /\ ~supplied => F = {}
         /\ gen' = Deduping(key, key = KeyNone, supplied, F)
    /\ last' = Returned("skip_duplicates", 0, 0)
    /\ UNCHANGED <<src, pos, teeVars, sl>>

NextDedup ==
    \/ GenReadAhead
    \/ SkipDuplicates
    \/ GenNext
    \/ GenReadAfter

SpecDedup == InitDedup /\ [][NextDedup]_vars

\* ============================================================== operators
\* The other operand of +, - and the iterables g() is built on: a finite
\* iterable of elements (k = "seq") or, for -, a string of one-character
\* elements (k = "str").
OtherSeqs == SeqsUpTo(MaxOther)

Operand(k, items) == [k |-> k, items |-> items]

Range(s) == {s[i] : i \in 1..Len(s)}

\* The parts itertools.chain is given: self.iterator, another iterable read
\* from its start, or a clone made by itertools.tee.
SelfPart == [k |-> "self", items |-> <<>>, at |-> 0, it |-> Raw]

SeqPart(items) == [k |-> "seq", items |-> items, at |-> 0, it |-> Raw]

TeePart(it) == [k |-> "tee", items |-> <<>>, at |-> 0, it |-> it]

\* A wrapper over itertools.chain(*parts): nothing is read before next().
Chained(op, parts, others, n) ==
    [kind |-> "chain", phase |-> "open", pos0 |-> pos, out |-> <<>>,
     err |-> "none", op |-> op, parts |-> parts, cur |-> 1,
     others |-> others, n |-> n]

\* __add__: itertools.chain(self.iterator, other)
AddParts(other) == <<SelfPart, SeqPart(other)>>

\* Mutant: __radd__ chains as __add__ does.
RAddAsAdd(other) == <<SelfPart, SeqPart(other)>>

\* __radd__: itertools.chain(other, self.iterator)
RAddParts(other) == <<SeqPart(other), SelfPart>>

\* Mutant: __mul__ chains self.iterator with itself.
MulPartsNoTee(it, n) == [j \in 1..n |-> SelfPart]

\* __mul__: the clones of itertools.tee(self.iterator, num), in order.
MulParts(it, n) == [j \in 1..n |-> TeePart(TeeObject(it, j))]

\* The numbers a caller may multiply g by, -1 standing for the negative
\* ones, which itertools.tee refuses.
MulCounts == (-1)..MaxItems

\* Whether next() on a part finds an element, the element it returns, and
\* the part afterwards.
PartHas(part) ==
    CASE part.k = "self" -> HasNext(iterator)
      [] part.k = "seq"  -> part.at < Len(part.items)
      [] OTHER           -> HasNext(part.it)

PartVal(part) ==
    CASE part.k = "self" -> NextVal(iterator)
      [] part.k = "seq"  -> part.items[part.at + 1]
      [] OTHER           -> NextVal(part.it)

PartStepped(part) ==
    CASE part.k = "self" -> part
      [] part.k = "seq"  -> [part EXCEPT !.at = @ + 1]
      [] OTHER           -> [part EXCEPT !.it = Stepped(@)]

\* The effect of next() on a part on g's source, buffers and iterator.
PartPull(part) ==
    CASE part.k = "self" -> Pull(iterator) /\ iterator' = Stepped(iterator)
      [] part.k = "seq"  -> UNCHANGED <<pos, tbuf, iterator>>
      [] OTHER           -> Pull(part.it) /\ UNCHANGED iterator

\* IterableWrapper.__init__ with several iterables:
\* iter(itertools.chain(iterable, *more_iterables)), where iterable is the
\* source src, still unread, and more_iterables are one or two others.
Construct ==
    /\ gen.kind = "idle" /\ pos = 0
    /\ \E b \in OtherSeqs, c \in OtherSeqs, three \in BOOLEAN :
         gen' = IF three
                  THEN Chained("init", <<SelfPart, SeqPart(b), SeqPart(c)>>,
                               <<b, c>>, 0)
                  ELSE Chained("init", <<SelfPart, SeqPart(b)>>, <<b>>, 0)
    /\ last' = Returned("init", 0, 0)
    /\ UNCHANGED <<src, pos, teeVars, sl>>

\* IterableWrapper.__add__(other)
Add ==
    /\ gen.kind = "idle"
    /\ \E o \in OtherSeqs : gen' = Chained("add", AddParts(o), <<o>>, 0)
    /\ last' = Returned("add", 0, 0)
    /\ UNCHANGED <<src, pos, teeVars, sl>>

\* IterableWrapper.__radd__(other)
RAdd ==
    /\ gen.kind = "idle"
    /\ \E o \in OtherSeqs : gen' = Chained("radd", RAddParts(o), <<o>>, 0)
    /\ last' = Returned("radd", 0, 0)
    /\ UNCHANGED <<src, pos, teeVars, sl>>

\* IterableWrapper.__mul__(num), also __rmul__:
\* itertools.chain(*itertools.tee(self.iterator, num))
Mul ==
    /\ gen.kind = "idle"
    /\ \E n \in MulCounts :
         IF n < 0
           THEN /\ gen' = [Chained("mul", <<>>, <<>>, n) EXCEPT
                             !.phase = "error", !.err = "ValueError"]
                /\ last' = Raised("mul", 0, "ValueError")
                /\ UNCHANGED tbuf
           ELSE /\ gen' = Chained("mul", MulParts(iterator, n), <<>>, n)
                /\ last' = Returned("mul", 0, 0)
                /\ tbuf' = IF n = 0 THEN tbuf ELSE TeeBuffers(iterator)
    /\ UNCHANGED <<src, pos, iterator, tee_called, handles, teeCalls, sl>>

\* next() on a wrapper over itertools.chain: the current part is read until
\* it is exhausted, then the next one, and so on.
ChainNext ==
    /\ gen.kind = "chain" /\ gen.phase = "open"
    /\ LET live == {j \in gen.cur..Len(gen.parts) : PartHas(gen.parts[j])} IN
       IF live = {}
         THEN /\ gen' = [gen EXCEPT !.phase = "done",
                                    !.cur = Len(gen.parts) + 1]
              /\ last' = Raised("next", -1, "StopIteration")
              /\ UNCHANGED <<pos, tbuf, iterator>>
         ELSE LET j == CHOOSE j \in live : \A i \in live : j <= i
                  part == gen.parts[j]
              IN  /\ gen' = [gen EXCEPT !.out = Append(@, PartVal(part)),
                                        !.cur = j,
                                        !.parts[j] = PartStepped(part)]
                  /\ last' = Returned("next", -1, PartVal(part))
                  /\ PartPull(part)
    /\ UNCHANGED <<src, tee_called, handles, teeCalls, sl>>

\* ---------------------------------------------------------- subtraction
\* Mutant: nothing is excluded.
ExcludesNothing(other) == {}

\* set(ensure_tuple(other)): a string is one element, whatever its length
\* (equal to an element of a source of one-character strings only if it has
\* one character); any other iterable gives its elements.
Excluded(other) ==
    IF other.k = "str" /\ Len(other.items) # 1 THEN {}
    ELSE Range(other.items)

\* A wrapper over (x for x in filtered if x not in filter_from): op "sub"
\* filters self.iterator, op "rsub" filters other, read from opos on.
Filtered(op, other, exclude, opos) ==
    [kind |-> "filter", phase |-> "open", pos0 |-> pos, out |-> <<>>,
     err |-> "none", op |-> op, other |-> other, exclude |-> exclude,
     opos |-> opos]

\* IterableWrapper.__sub__(other): other is turned into a set at once (and
\* so read to its end), self.iterator is left for the generator.
Sub ==
    /\ gen.kind = "idle"
    /\ \E k \in {"seq", "str"}, o \in OtherSeqs :
         gen' = Filtered("sub", Operand(k, o), Excluded(Operand(k, o)), Len(o))
    /\ last' = Returned("sub", 0, 0)
    /\ UNCHANGED <<src, pos, teeVars, sl>>

\* IterableWrapper.__rsub__(other): self.iterator is turned into a set at
\* once, other is left for the generator, which iterates it (a string by
\* its characters).
RSub ==
    /\ gen.kind = "idle"
    /\ \E k \in {"seq", "str"}, o \in OtherSeqs :
         gen' = Filtered("rsub", Operand(k, o), Range(Future(iterator)), 0)
    /\ pos' = Len(src)
    /\ last' = Returned("rsub", 0, 0)
    /\ UNCHANGED <<src, teeVars, sl>>

\* The offset in s, from p on, of the first element not in exclude, or
\* Len(s) if there is none.
RECURSIVE SkipExcluded(_, _, _)
SkipExcluded(s, p, exclude) ==
    IF p >= Len(s) THEN Len(s)
    ELSE IF s[p + 1] \notin exclude THEN p
    ELSE SkipExcluded(s, p + 1, exclude)

\* next() on the generator expression of __sub__ / __rsub__.
FilterNext ==
    /\ gen.kind = "filter" /\ gen.phase = "open"
    /\ LET s == IF gen.op = "sub" THEN src ELSE gen.other.items
           p == IF gen.op = "sub" THEN pos ELSE gen.opos
           q == SkipExcluded(s, p, gen.exclude)
           got == q < Len(s)
           p2 == IF got THEN q + 1 ELSE q
       IN  /\ gen' = [gen EXCEPT
                        !.out = IF got THEN Append(@, s[q + 1]) ELSE @,
                        !.phase = IF got THEN "open" ELSE "done",
                        !.opos = IF gen.op = "sub" THEN @ ELSE p2]
           /\ pos' = IF gen.op = "sub" THEN p2 ELSE pos
           /\ last' = IF got THEN Returned("next", -1, s[q + 1])
                      ELSE Raised("next", -1, "StopIteration")
    /\ UNCHANGED <<src, teeVars, sl>>

\* ----------------------------------------------------------------- count
\* count(): len(self.iterator) raises TypeError (a chain or tee object has no
\* length), so the elements are counted by "for i, _ in
\* enumerate(self.iterator, 1): pass; return i", where i is unbound if the
\* loop never ran.
Counted(n) ==
    IF n = 0 THEN [ok |-> FALSE, val |-> 0] ELSE [ok |-> TRUE, val |-> n]

\* IterableWrapper.count()
Count ==
    /\ gen.kind = "idle"
    /\ LET r == Counted(Len(Future(iterator))) IN
       /\ gen' = [kind |-> "count", phase |-> IF r.ok THEN "done" ELSE "error",
                  pos0 |-> pos, out |-> <<>>,
                  err |-> IF r.ok THEN "none" ELSE "UnboundLocalError",
                  res |-> r.val]
       /\ last' = IF r.ok THEN Returned("count", 0, r.val)
                  ELSE Raised("count", 0, "UnboundLocalError")
    /\ pos' = Len(src)
    /\ UNCHANGED <<src, teeVars, sl>>

NextOps ==
    \/ GenReadAhead
    \/ Construct
    \/ Add
    \/ RAdd
    \/ Mul
    \/ Sub
    \/ RSub
    \/ Count
    \/ ChainNext
    \/ FilterNext
    \/ GenReadAfter

SpecOps == InitSlice /\ [][NextOps]_vars

\* ================================================================ SpecLazy
\* Mutant: wrapping an iterator reads its first element.
InitPeeks(p) == IF p < Len(src) THEN p + 1 ELSE p

\* Where the source stands after self.__class__(it) wrapped an iterator it
\* over self.iterator that stood at p: __init__ calls iter(elem), to see
\* that elem is iterable, and iter(itertools.chain(...)), and neither reads.
InitCursor(p) == p

MapFuncs == [Vals -> Vals]

EnumerateStarts == 0..1

\* A wrapper over builtins.map(callable, self.iterator),
\* builtins.zip(self.iterator, other) or enumerate(self.iterator, start).
Mapped(kind, f, other, start) ==
    [kind |-> kind, phase |-> "open", pos0 |-> pos, out |-> <<>>,
     err |-> "none", f |-> f, other |-> other, at |-> 0, start |-> start,
     i |-> 0]

MappedKinds == {"map", "zip", "enumerate"}

\* next() on builtins.map(callable, self.iterator)
MapNext(p, s) ==
    IF HasAt(p) THEN Yield(s.f[src[p + 1]], p + 1, s) ELSE End(p, s)

\* next() on builtins.zip(self.iterator, other): self.iterator is asked
\* first, and its element is dropped if other has ended.
ZipNext(p, s) ==
    IF ~HasAt(p) THEN End(p, s)
    ELSE IF s.at >= Len(s.other) THEN End(p + 1, s)
    ELSE Yield(<<src[p + 1], s.other[s.at + 1]>>, p + 1,
               [s EXCEPT !.at = @ + 1])

\* next() on enumerate(self.iterator, start)
EnumerateNext(p, s) ==
    IF HasAt(p) THEN Yield(<<s.start + s.i, src[p + 1]>>, p + 1,
                           [s EXCEPT !.i = @ + 1])
    ELSE End(p, s)

MappedStep(p, s) ==
    CASE s.kind = "map" -> MapNext(p, s)
      [] s.kind = "zip" -> ZipNext(p, s)
      [] OTHER          -> EnumerateNext(p, s)

InitLazy ==
    /\ src \in SeqsUpTo(MaxLen)
    /\ InitWrapper
    /\ sl = SliceIdle
    /\ gen = GenIdle

\* Whether g has no derived wrapper at hand.
NoneDerived == gen.kind = "idle" /\ sl.phase = "idle"

\* IterableWrapper.map(callable)
Map ==
    /\ NoneDerived
    /\ \E f \in MapFuncs : gen' = Mapped("map", f, <<>>, 0)
    /\ pos' = InitCursor(pos)
    /\ last' = Returned("map", 0, 0)
    /\ UNCHANGED <<src, teeVars, sl>>

\* IterableWrapper.zip(*others), with one other iterable
Zip ==
    /\ NoneDerived
    /\ \E o \in OtherSeqs : gen' = Mapped("zip", [x \in Vals |-> x], o, 0)
    /\ pos' = InitCursor(pos)
    /\ last' = Returned("zip", 0, 0)
    /\ UNCHANGED <<src, teeVars, sl>>

\* IterableWrapper.enumerate(start)
Enumerate ==
    /\ NoneDerived
    /\ \E k \in EnumerateStarts :
         gen' = Mapped("enumerate", [x \in Vals |-> x], <<>>, k)
    /\ pos' = InitCursor(pos)
    /\ last' = Returned("enumerate", 0, 0)
    /\ UNCHANGED <<src, teeVars, sl>>

\* next() on the wrapper map, zip or enumerate returned.
MappedNext ==
    /\ gen.phase = "open"
    /\ gen.kind \in MappedKinds
    /\ LET r == MappedStep(pos, gen) IN
       /\ pos' = r.pos
       /\ gen' = [r.st EXCEPT
                    !.out = IF r.to = "yield" THEN Append(@, r.val) ELSE @,
                    !.phase = IF r.to = "yield" THEN "open" ELSE "done"]
       /\ last' = IF r.to = "yield" THEN Returned("next", -1, 0)
                  ELSE Raised("next", -1, "StopIteration")
    /\ UNCHANGED <<src, teeVars, sl>>

LazyFirsts == NoneDerived /\ Firsts

LazyLasts == NoneDerived /\ Lasts

LazyChunks == NoneDerived /\ Chunks

LazyWindow == NoneDerived /\ Window

LazyGroupBy == NoneDerived /\ GroupBy

LazySkipDuplicates == NoneDerived /\ SkipDuplicates

LazySlice == NoneDerived /\ GetSlice

\* g.next() while g has no derived wrapper at hand.
LazyReadAhead == NoneDerived /\ GNext

\* The calls that return a derived wrapper.
LazyCalls ==
    {"map", "zip", "enumerate", "chunks", "window", "firsts", "lasts",
     "skip_duplicates", "groupby", "getitem"}

\* The derived wrapper the last call returned is dropped before it was
\* read (as gen[3:5] is in test_getitem).
Discard ==
    /\ last.who = 0 /\ last.op \in LazyCalls /\ last.err = "none"
    /\ gen' = GenIdle
    /\ sl' = SliceIdle
    /\ last' = Returned("discard", 0, 0)
    /\ UNCHANGED <<src, pos, teeVars>>

NextLazy ==
    \/ LazyReadAhead
    \/ Map
    \/ Zip
    \/ Enumerate
    \/ LazyFirsts
    \/ LazyLasts
    \/ LazyChunks
    \/ LazyWindow
    \/ LazyGroupBy
    \/ LazySkipDuplicates
    \/ LazySlice
    \/ Discard
    \/ MappedNext
    \/ GenNext
    \/ SliceNext

SpecLazy == InitLazy /\ [][NextLazy]_vars

\* ============================================================== SpecShared
\* The two generators of one pair, and who reads them.
Sharers == {"a", "b"}

Reader(w) == IF w = "a" THEN -1 ELSE -2

\* a = g.skip_duplicates(key, F) and b = g.skip_duplicates(key, F), F being
\* one set object the caller keeps: both generators read g's iterator, out
\* is what they delivered, in order, as <<generator, element, fingerprint>>.
Sharing(key, F) ==
    [kind |-> "pair", phase |-> "open", pos0 |-> pos, out |-> <<>>,
     err |-> "none", key |-> key, F0 |-> F, F |-> F,
     a |-> Deduping(key, key = KeyNone, TRUE, F),
     b |-> Deduping(key, key = KeyNone, TRUE, F)]

\* The generator s as it resumes, the caller's set holding F by now: the set
\* it works on is the caller's if it took it.
Resumed(s, F) ==
    [s EXCEPT !.F = F, !.seen = IF s.stage # "new" /\ s.shared THEN F ELSE @]

SharedSkipDuplicates ==
    /\ gen.kind = "idle"
    /\ \E key \in Keys \cup {KeyNone}, F \in SUBSET Fingerprints :
         gen' = Sharing(key, F)
    /\ last' = Returned("skip_duplicates", 0, 0)
    /\ UNCHANGED <<src, pos, teeVars, sl>>

\* next() on one of the two generators.
SharedNext(w) ==
    /\ gen.kind = "pair"
    /\ gen[w].phase = "open"
    /\ LET r == DedupNext(pos, Resumed(gen[w], gen.F))
           ph == CASE r.to = "yield" -> "open"
                   [] r.to = "end"   -> "done"
                   [] OTHER          -> "error"
           m == [r.st EXCEPT
                   !.out = IF r.to = "yield" THEN Append(@, r.val) ELSE @,
                   !.phase = ph,
                   !.err = IF r.to \in {"yield", "end"} THEN "none" ELSE r.to]
           o == IF w = "a" THEN "b" ELSE "a"
       IN  /\ pos' = r.pos
           /\ gen' = [gen EXCEPT
                        ![w] = m,
                        !.F = IF r.st.shared THEN r.st.F ELSE @,
                        !.out = IF r.to = "yield"
                                  THEN Append(@, <<w, r.val, r.st.pend>>)
                                  ELSE @,
                        !.phase = IF ph = "open" \/ gen[o].phase = "open"
                                    THEN "open" ELSE "done"]
           /\ last' = CASE r.to = "yield" -> Returned("next", Reader(w), 0)
                        [] r.to = "end" ->
                             Raised("next", Reader(w), "StopIteration")
                        [] OTHER -> Raised("next", Reader(w), r.to)
    /\ UNCHANGED <<src, teeVars, sl>>

NextShared ==
    \/ GenReadAhead
    \/ SharedSkipDuplicates
    \/ \E w \in Sharers : SharedNext(w)

SpecShared == InitDedup /\ [][NextShared]_vars

\* ------------------------------------------- claims on derived generators
\* The derived generator of the given kind was read to its end.
GenDone(kind) == gen.kind = kind /\ gen.phase = "done"

\* Whether the last call was a read of g itself.
ReadOfG == last.op = "next" /\ last.who = 0

Repeat(x, n) == [j \in 1..n |-> x]

Min(a, b) == IF a <= b THEN a ELSE b

RECURSIVE Flatten(_)
Flatten(ss) == IF ss = <<>> THEN <<>> ELSE Head(ss) \o Flatten(Tail(ss))

\* C13: for every finite S (the empty one included), n >= 0 and default X,
\* firsts(S, n, default=X) yields exactly n items: the first n items of S
\* when len(S) >= n, otherwise all of S followed by n - len(S) copies of X.
C13_FirstsYieldsExactlyN ==
    (gen.kind = "firsts" /\ gen.n >= 0 /\ gen.phase \in {"done", "error"}) =>
        /\ gen.err = "none"
        /\ Len(gen.out) = gen.n
        /\ gen.out = IF Len(G0) >= gen.n THEN SubSeq(G0, 1, gen.n)
                     ELSE G0 \o Repeat(PadDefault, gen.n - Len(G0))

\* C14: firsts(n) never pulls more than n elements from g and what it pulled
\* is what it yielded; when S has at least n elements and firsts(n) has been
\* read to its end, g holds exactly S[n:] and the reads of g that follow
\* yield these elements in order.
C14_FirstsSharesCursor ==
    (gen.kind = "firsts" /\ gen.n >= 0) =>
        /\ gen.phase = "open" =>
             /\ pos - gen.pos0 <= gen.n
             /\ pos - gen.pos0 <= Len(gen.out)
        /\ (gen.phase = "done" /\ Len(G0) >= gen.n) =>
             /\ ~ReadOfG => Future(iterator) = Rest(G0, gen.n)
             /\ (ReadOfG /\ last.res # Default) =>
                   /\ pos > gen.pos0 + gen.n
                   /\ last.res = G0[pos - gen.pos0]
             /\ (ReadOfG /\ last.res = Default) => pos = Len(src)

\* firsts(n), n >= 2, was read to its end over a longer S and the next read
\* of g yielded S[n].
C14_Witness ==
    /\ GenDone("firsts") /\ gen.n >= 2 /\ Len(G0) > gen.n
    /\ Len(gen.out) = gen.n
    /\ ReadOfG /\ pos = gen.pos0 + gen.n + 1
    /\ last.res = G0[gen.n + 1]

\* C15: for every finite S, n >= 0 and default X, lasts(S, n, default=X)
\* yields exactly n items, n - min(n, len(S)) copies of X and then the last
\* min(n, len(S)) elements of S in order; the source is fully consumed and g
\* yields nothing afterwards.
C15_LastsPadsAndDrains ==
    GenDone("lasts") =>
        /\ gen.n >= 0
        /\ gen.out = [j \in 1..gen.n |->
                        IF j <= gen.n - Min(gen.n, Len(G0)) THEN PadDefault
                        ELSE G0[Len(G0) - gen.n + j]]
        /\ Future(iterator) = <<>>
        /\ ReadOfG => last.res = Default

\* lasts(n), n >= 2, was read to its end over a longer S, and g was read
\* afterwards.
C15_Witness ==
    /\ GenDone("lasts") /\ gen.n >= 2 /\ Len(G0) > gen.n
    /\ Len(gen.out) = gen.n
    /\ gen.out[1] # gen.out[2]
    /\ ReadOfG

\* C19: for every finite S and size n >= 1, chunks(S, n) yields exactly
\* ceil(len(S)/n) groups and then ends normally, with no error: every group
\* but the last has n items, the last has 1 to n, and the groups put end to
\* end are S.
C19_ChunksPartition ==
    (gen.kind = "chunks" /\ gen.n >= 1 /\ gen.phase \in {"done", "error"}) =>
        /\ gen.err = "none"
        /\ Len(gen.out) = (Len(G0) + gen.n - 1) \div gen.n
        /\ \A j \in 1..Len(gen.out) :
             /\ j < Len(gen.out) => Len(gen.out[j]) = gen.n
             /\ Len(gen.out[j]) \in 1..gen.n
        /\ Flatten(gen.out) = G0

\* C20: for every finite S and window size k >= 1 (copying cast), window(S, k)
\* yields the len(S) - k + 1 windows S[i:i+k] in order if k <= len(S), and
\* one window equal to all of S if len(S) < k.
C20_WindowSlides ==
    (GenDone("window") /\ gen.cast /\ gen.n >= 1) =>
        gen.out = IF gen.n <= Len(G0)
                    THEN [i \in 1..(Len(G0) - gen.n + 1) |->
                            SubSeq(G0, i, i + gen.n - 1)]
                    ELSE <<G0>>

\* window(k), k >= 2, was read to its end over a longer S: several windows
\* were yielded, the first and the last differing.
C20_Witness ==
    /\ GenDone("window") /\ gen.cast /\ gen.n >= 2 /\ Len(G0) > gen.n
    /\ Len(gen.out) = Len(G0) - gen.n + 1
    /\ gen.out[1] # gen.out[Len(gen.out)]

\* ------------------------------------------- claims on skip_duplicates
\* The fingerprint of x under the key function given.
Fp(x) == gen.key[x]

\* The elements of s[1..n] whose fingerprint is not in f0 and is not that of
\* an earlier element of s, in order.
RECURSIVE Uniques(_, _, _)
Uniques(s, f0, n) ==
    IF n = 0 THEN <<>>
    ELSE LET keep == /\ Fp(s[n]) \notin f0
                     /\ \A j \in 1..(n - 1) : Fp(s[j]) # Fp(s[n])
         IN  IF keep THEN Append(Uniques(s, f0, n - 1), s[n])
             ELSE Uniques(s, f0, n - 1)

\* C16: skip_duplicates(S, key) yields, in source order, exactly the elements
\* of S that are the first of S with their fingerprint: the fingerprints of
\* the yielded elements are pairwise distinct and every fingerprint occurring
\* in S is represented.
C16_FirstOfEachFingerprint ==
    (GenDone("dedup") /\ gen.F0 = {}) =>
        /\ gen.out = Uniques(G0, {}, Len(G0))
        /\ \A i, j \in 1..Len(gen.out) :
             i # j => Fp(gen.out[i]) # Fp(gen.out[j])
        /\ {Fp(G0[i]) : i \in 1..Len(G0)}
             = {Fp(gen.out[i]) : i \in 1..Len(gen.out)}

\* skip_duplicates with a key function was read to its end over three
\* elements: the middle one, a different element with the fingerprint of the
\* first, was skipped.
C16_Witness ==
    /\ GenDone("dedup") /\ gen.F0 = {} /\ ~gen.nokey
    /\ Len(G0) = 3 /\ Len(gen.out) = 2
    /\ G0[1] # G0[2] /\ Fp(G0[1]) = Fp(G0[2])
    /\ gen.out = <<G0[1], G0[3]>>

\* C17: when the caller supplies a fingerprint set F, an empty one included,
\* F is the set used: elements whose fingerprint is in F are suppressed and,
\* once the result is consumed, F holds its initial content plus the
\* fingerprint of every yielded element.
C17_SuppliedSetIsUsed ==
    (GenDone("dedup") /\ gen.supplied) =>
        /\ gen.out = Uniques(G0, gen.F0, Len(G0))
        /\ gen.F = gen.F0 \cup {Fp(gen.out[i]) : i \in 1..Len(gen.out)}

\* The position in G0 of the first element whose key result is no
\* fingerprint, or 0.
FirstBad ==
    IF \E i \in 1..Len(G0) : Fp(G0[i]) \notin DedupVals
      THEN CHOOSE i \in 1..Len(G0) :
             /\ Fp(G0[i]) \notin DedupVals
             /\ \A j \in 1..(i - 1) : Fp(G0[j]) \in DedupVals
      ELSE 0

\* C18: if the key function returns an unhashable object for an element x,
\* skip_duplicates fails with a TypeError when x is processed: the elements
\* before x are yielded as usual first and nothing is yielded after. The
\* error is the unhashable-fingerprint one; a TypeError raised by the key
\* function itself is re-raised unchanged instead.
C18_UnhashableFingerprint ==
    (gen.kind = "dedup" /\ FirstBad > 0) =>
        /\ gen.phase # "done"
        /\ IsPrefix(gen.out, Uniques(G0, gen.F0, FirstBad - 1))
        /\ gen.phase = "error" =>
             /\ gen.err = "TypeError"
             /\ gen.out = Uniques(G0, gen.F0, FirstBad - 1)
             /\ ~ReadOfG => pos = gen.pos0 + FirstBad
             /\ gen.msg = IF Fp(G0[FirstBad]) = Unhashable THEN "unhashable"
                          ELSE "reraised"

\* The key function raised a TypeError of its own on the third element,
\* after a first element was yielded and a duplicate of it skipped, and the
\* error was re-raised unchanged.
C18_Witness ==
    /\ gen.kind = "dedup" /\ gen.phase = "error" /\ gen.err = "TypeError"
    /\ FirstBad = 3 /\ Fp(G0[3]) = KeyRaises
    /\ Len(gen.out) = 1
    /\ gen.msg = "reraised"

\* C21: when window() is called with no cast, every yielded window is the one
\* buffer: at any time every reference the consumer has stored shows the
\* newest window, and after full consumption all of them show the last
\* window, the last k elements of S (all of S if it is shorter).
C21_WindowYieldsOneBuffer ==
    (gen.kind = "window" /\ ~gen.cast /\ gen.n >= 1) =>
        /\ \A j \in 1..Len(gen.out) : gen.out[j] = gen.buf
        /\ gen.phase = "done" =>
             /\ Len(gen.out) = IF Len(G0) >= gen.n THEN Len(G0) - gen.n + 1
                               ELSE 1
             /\ \A j \in 1..Len(gen.out) :
                  gen.out[j] = SubSeq(G0, IF Len(G0) >= gen.n
                                            THEN Len(G0) - gen.n + 1 ELSE 1,
                                      Len(G0))

\* window(k) with no cast was read to its end over a longer S: the first
\* reference collected no longer shows the first window.
C21_Witness ==
    /\ GenDone("window") /\ ~gen.cast /\ gen.n >= 2 /\ Len(G0) > gen.n
    /\ Len(gen.out) >= 2
    /\ gen.out[1] # SubSeq(G0, 1, gen.n)
    /\ gen.out[1] = gen.out[2]

\* The elements of s whose key is v, in their order in s.
WithKey(s, v) == SelectSeq(s, LAMBDA x : gen.key[x] = v)

\* The keys of set K in ascending order, or descending.
RECURSIVE KeysInOrder(_, _)
KeysInOrder(K, reverse) ==
    IF K = {} THEN <<>>
    ELSE LET v == CHOOSE v \in K :
                    \A w \in K : IF reverse THEN w <= v ELSE v <= w
         IN  <<v>> \o KeysInOrder(K \ {v}, reverse)

\* C22: for every finite S and key function k, groupby yields one (key,
\* group) pair per distinct key value, in ascending key order (descending
\* when reverse is set); the group of key v holds all the elements x of S
\* with k(x) = v, the non-adjacent ones included, in their original relative
\* order.
C22_GroupBySortedKey ==
    GenDone("groupby") =>
        LET ks == KeysInOrder({gen.key[G0[i]] : i \in 1..Len(G0)}, gen.reverse)
        IN  gen.out = [j \in 1..Len(ks) |-> <<ks[j], WithKey(G0, ks[j])>>]

\* groupby was read to its end over a source where an element of the smaller
\* key stands between two elements of the larger one: two groups, the first
\* of one element, the second of the two non-adjacent ones.
C22_Witness ==
    /\ GenDone("groupby") /\ ~gen.reverse
    /\ Len(G0) = 3
    /\ gen.key[G0[1]] = 2 /\ gen.key[G0[2]] = 1 /\ gen.key[G0[3]] = 2
    /\ gen.out = <<<<1, <<G0[2]>>>>, <<2, <<G0[1], G0[3]>>>>>>

\* ------------------------------------------------- claims on the operators
\* Whether the last call was made on the wrapper an operator returned.
ReadOfResult == last.op = "next" /\ last.who = -1

\* The source elements pulled since the operator was applied, as long as
\* only its result has been read.
PulledSince == pos - gen.pos0

\* C23: g(S) * n and n * g(S) yield S n times over, in order (nothing for
\* n = 0), and every element of the one-shot source is pulled from it at most
\* once: the first repetition pulls them, the later ones are served from
\* the copies.
C23_MulRepeatsReadingOnce ==
    (gen.kind = "chain" /\ gen.op = "mul" /\ gen.n >= 0) =>
        LET all == Flatten(Repeat(G0, gen.n)) IN
        /\ IsPrefix(gen.out, all)
        /\ gen.phase = "done" => gen.out = all
        /\ (gen.phase = "open" \/ ReadOfResult) =>
               PulledSince = Min(Len(gen.out), Len(G0))

C23_Witness ==
    /\ GenDone("chain") /\ gen.op = "mul" /\ gen.n >= 2
    /\ gen.pos0 >= 1 /\ Len(G0) >= 2 /\ G0[1] # G0[2]
    /\ Len(gen.out) = gen.n * Len(G0)
    /\ pos = Len(src)

\* The elements of a string operand taken as the code takes it on the right
\* of "-": one element, the string itself, equal to the one-character
\* element x only if it is that character alone.
WholeString(other) == {x \in Vals : other.items = <<x>>}

\* What is left of s without the members of the set E, in order.
Without(s, E) == SelectSeq(s, LAMBDA x : x \notin E)

\* C24 (as the code has it): g(S) - T yields, in source order and keeping
\* repeats, the elements of S that are not members of T, for T an iterable
\* other than a string; a string T is excluded as one element, not by its
\* characters. T - g(S) yields the elements (characters, for a string) of T
\* that are not members of S. The excluded side is read to its end when the
\* operator is applied, the filtered side only as the result is read.
C24_SubtractionByOperand ==
    gen.kind = "filter" =>
        LET T == gen.other.items
            E == IF gen.other.k = "str" THEN WholeString(gen.other)
                 ELSE Range(T)
            exp == IF gen.op = "sub" THEN Without(G0, E)
                   ELSE Without(T, Range(G0))
        IN  /\ IsPrefix(gen.out, exp)
            /\ gen.phase = "done" => gen.out = exp
            /\ gen.op = "sub" =>
                   /\ gen.opos = Len(T)
                   /\ last.op = "sub" => pos = gen.pos0
            /\ gen.op = "rsub" =>
                   /\ pos = Len(src)
                   /\ last.op = "rsub" => gen.opos = 0

C24_Witness ==
    /\ GenDone("filter") /\ gen.op = "sub" /\ gen.other.k = "seq"
    /\ Len(G0) = 3 /\ G0[1] = G0[3] /\ G0[1] # G0[2]
    /\ gen.other.items = <<G0[2]>>
    /\ gen.out = <<G0[1], G0[3]>>

\* C24 (as stated): g(S) - T yields exactly the elements of S that are not
\* members of T, whatever T is.
C24_SubtractionByMembers ==
    (GenDone("filter") /\ gen.op = "sub") =>
        gen.out = Without(G0, Range(gen.other.items))

\* C25: concatenation keeps the order and delivers each element once:
\* g(A, B, C) yields all of A, then all of B, then all of C; g(A) + B yields
\* A then B; B + g(A) yields B then A; a part is read only after the one
\* before it is exhausted.
C25_ConcatenationInOrder ==
    (gen.kind = "chain" /\ gen.op \in {"init", "add", "radd"}) =>
        LET B == gen.others[1]
            all == CASE gen.op = "add"  -> G0 \o B
                     [] gen.op = "radd" -> B \o G0
                     [] OTHER           -> G0 \o Flatten(gen.others)
            before == IF gen.op = "radd" THEN Len(B) ELSE 0
        IN  /\ IsPrefix(gen.out, all)
            /\ gen.phase = "done" => gen.out = all
            /\ (gen.phase = "open" \/ ReadOfResult) =>
                   PulledSince = IF Len(gen.out) <= before THEN 0
                                 ELSE Min(Len(gen.out) - before, Len(G0))

C25_Witness ==
    /\ GenDone("chain") /\ gen.op = "radd"
    /\ Len(G0) = 2 /\ Len(gen.others[1]) = 2
    /\ gen.others[1] # G0
    /\ gen.out = gen.others[1] \o G0

\* C26: count() returns the number of elements remaining in the wrapper for
\* every finite sequence, 0 for an empty or already exhausted one included,
\* and leaves the wrapper exhausted.
C26_CountReturnsRemaining ==
    gen.kind = "count" =>
        /\ gen.phase = "done"
        /\ gen.res = Len(G0)
        /\ pos = Len(src)

\* --------------------------------------------------------- claims on calls
\* Whether the last call returned a derived wrapper.
Called == last.who = 0 /\ last.op \in LazyCalls /\ last.err = "none"

\* C27: calling map, zip, enumerate, chunks, window, firsts, lasts,
\* skip_duplicates, groupby or a slice on a wrapper returns a new wrapper and
\* pulls nothing from the source; the source is pulled only by a read, of the
\* returned wrapper or of g itself, so a wrapper that is built and dropped
\* leaves the next one what it would have had.
C27_CallsPullNothing ==
    [][/\ Called' => (pos' = pos /\ Future(iterator)' = Future(iterator))
       /\ pos' # pos => last'.op = "next"]_vars

C27_Witness ==
    /\ Called /\ last.op = "lasts"
    /\ gen.kind = "lasts" /\ gen.out = <<>>
    /\ 1 <= pos /\ pos < Len(src) /\ pos = gen.pos0

\* ----------------------------------------------------- claims on g.next()
\* C28: while elements remain, g.next(default) returns the next element in
\* source order and advances g by one; once g is exhausted, every further
\* call returns the caller's default and never signals the end of the
\* sequence.
C28_NextWithDefault ==
    [][(last'.op = "next" /\ last'.who = 0) =>
          /\ last'.err = "none"
          /\ IF Future(iterator) # <<>>
               THEN /\ last'.res = Head(Future(iterator))
                    /\ Future(iterator)' = Tail(Future(iterator))
               ELSE /\ last'.res = Default
                    /\ Future(iterator)' = <<>>]_vars

C28_Witness ==
    /\ last = Returned("next", 0, Default)
    /\ Len(src) >= 2 /\ pos = Len(src)
    /\ Future(iterator) = <<>>

\* C29: the step of a slice is honoured in the predicate:predicate
\* combination as in the others: g[P:Q:k], k >= 1, yields every k-th element,
\* beginning with the first element satisfying P, of the run that starts at
\* the first P-match and ends before the first following Q-match.
C29_StepInPredicateSlice ==
    (SliceDone /\ sl.start.k = "pred" /\ sl.stop.k = "pred" /\ sl.step >= 1)
        => sl.out = ListSlice(UntilFirst(sl.stop, FromFirst(sl.start, S0)),
                              0, -1, sl.step)

\* ------------------------------------------------ claims on a shared set
\* C30: two skip_duplicates generators that share one supplied, non-empty
\* fingerprint set never both yield an element with the same fingerprint,
\* however the pulls from the two are interleaved: when an element is
\* delivered, its fingerprint is already recorded in the shared set.
C30_SharedSetNoDoubleYield ==
    (gen.kind = "pair" /\ gen.F0 # {}) =>
        /\ \A i, j \in 1..Len(gen.out) :
             (gen.out[i][1] # gen.out[j][1]) => gen.out[i][3] # gen.out[j][3]
        /\ \A i \in 1..Len(gen.out) : gen.out[i][3] \in gen.F

====
